---- MODULE Spec2Model ----
(***************************************************************************)
(* Model of main.py: a Telegram bot that collects generation parameters in *)
(* context.user_data, submits a Runway job, polls it, extracts the output  *)
(* URL and delivers the video (by URL, then by upload).                    *)
(*                                                                         *)
(* The dispatcher built in main() processes one update at a time, so a     *)
(* handler runs from its first line to its return before the next update   *)
(* is taken; pc is the position of the running handler at its awaits on    *)
(* the provider and on the delivery calls.  Plain bot calls whose failure  *)
(* the code does not handle (send_message outside send_error_chat,         *)
(* q.answer, edit_message_text, get_file) are taken to succeed.            *)
(***************************************************************************)
EXTENDS Integers, Sequences, FiniteSets, TLC

(* ---------- bounds ---------- *)
\* number of bot messages that still show an inline keyboard
MaxMenus == 1
\* number of text messages that can wait for the running handler to return
MaxInbox == 1

(* ---------- program constants ---------- *)
MaxWait == 300
Interval == 3
\* timeout of one status request (line 109)
RequestTimeout == 120

MODE_KEY == "mode"
DURATION_KEY == "duration"
RATIO_KEY == "ratio"
PROMPT_KEY == "prompt"

(* ---------- JSON values and Python dicts ---------- *)
JNull == [t |-> "null"]
JStr(s) == [t |-> "str", s |-> s]
JNum(n) == [t |-> "num", n |-> n]
JDict(f) == [t |-> "dict", kv |-> f]
JList(q) == [t |-> "list", items |-> q]
NoMatch == [t |-> "nomatch"]

EmptyDict == [k \in {} |-> JNull]

\* Python truthiness of a JSON value
Truthy(v) ==
  CASE v.t = "str" -> v.s # ""
    [] v.t = "num" -> v.n # 0
    [] v.t = "dict" -> DOMAIN v.kv # {}
    [] v.t = "list" -> v.items # <<>>
    [] OTHER -> FALSE

\* d.get(k) on a dict of JSON values
Get(d, k) == IF k \in DOMAIN d THEN d[k] ELSE JNull

\* a or b
PyOr(a, b) == IF Truthy(a) THEN a ELSE b

\* context.user_data[k] = v
Put(d, k, v) == (k :> v) @@ d

\* context.user_data.get(k) is present (the handlers never store None)
Has(d, k) == k \in DOMAIN d

\* str.upper() on the status words the provider is scripted with
Upper(s) ==
  CASE s = "succeeded" -> "SUCCEEDED"
    [] s = "Success" -> "SUCCESS"
    [] s = "completed" -> "COMPLETED"
    [] s = "failed" -> "FAILED"
    [] s = "Error" -> "ERROR"
    [] s = "running" -> "RUNNING"
    [] s = "cancelled" -> "CANCELLED"
    [] OTHER -> s

\* str.strip() on the texts the user is scripted with
Strip(s) ==
  CASE s = " dog " -> "dog"
    [] s = "cat " -> "cat"
    [] OTHER -> s

\* base64.b64encode on the photos the user is scripted with (one byte each)
B64(img) ==
  CASE img = <<255>> -> "/w=="
    [] img = <<0>> -> "AA=="

image_bytes_to_data_uri(img) == [content_type |-> "image/jpeg", b64 |-> B64(img)]

(* ---------- helpers of main.py ---------- *)
RECURSIVE ScanTopKeys(_, _)
\* lines 50-55: the first key whose value is a str, or a dict with a truthy id
ScanTopKeys(d, keys) ==
  IF keys = <<>> THEN NoMatch
  ELSE LET val == Get(d, Head(keys)) IN
       IF val.t = "str" THEN val
       ELSE IF val.t = "dict" /\ Truthy(Get(val.kv, "id")) THEN Get(val.kv, "id")
       ELSE ScanTopKeys(d, Tail(keys))

RECURSIVE ScanDataKeys(_, _)
\* lines 58-60: the first truthy value under data
ScanDataKeys(d, keys) ==
  IF keys = <<>> THEN NoMatch
  ELSE IF Truthy(Get(d, Head(keys))) THEN Get(d, Head(keys))
  ELSE ScanDataKeys(d, Tail(keys))

extract_task_id(resp_json) ==
  LET top == ScanTopKeys(resp_json, <<"id", "taskId", "task_id", "task">>)
      data == Get(resp_json, "data")
      under == IF data.t = "dict"
               THEN ScanDataKeys(data.kv, <<"id", "taskId", "task_id">>)
               ELSE NoMatch
  IN IF top # NoMatch THEN top
     ELSE IF under # NoMatch THEN under
     ELSE JNull

RECURSIVE FirstKeyIn(_, _)
\* lines 74-76: first[k] for the first k of keys that is in first
FirstKeyIn(first, keys) ==
  IF keys = <<>> THEN JNull
  ELSE IF Head(keys) \in DOMAIN first THEN first[Head(keys)]
  ELSE FirstKeyIn(first, Tail(keys))

extract_output_url(task_json) ==
  LET out == Get(task_json, "output") IN
  IF ~Truthy(out) THEN JNull
  ELSE IF out.t = "list"
       THEN LET first == out.items[1] IN
            IF first.t = "str" THEN first
            ELSE IF first.t = "dict"
                 THEN FirstKeyIn(first.kv, <<"url", "uri", "output", "video">>)
                 ELSE JNull
       ELSE JNull

SuccessWords == {"SUCCEEDED", "SUCCESS", "COMPLETED"}
FailureWords == {"FAILED", "ERROR"}

\* line 115: j.get("status") or j.get("state")
PollStatus(j) == PyOr(Get(j, "status"), Get(j, "state"))

\* a comparison that forgets .upper()
PollSeesSuccess_cs(status) == status.t = "str" /\ status.s \in SuccessWords

\* line 117
PollSeesSuccess(status) == status.t = "str" /\ Upper(status.s) \in SuccessWords

\* a failure test that knows FAILED only
PollSeesFailure_failed(status) == status.t = "str" /\ Upper(status.s) = "FAILED"

\* line 119
PollSeesFailure(status) == status.t = "str" /\ Upper(status.s) \in FailureWords

\* a loop test that is off by one pass
LoopContinues_le(w) == w <= MaxWait

\* line 108: while waited < max_wait
LoopContinues(w) == w < MaxWait

\* a loop that counts one second for every sleep
NextWaited_second(w) == w + 1

\* line 122: waited += interval
NextWaited(w) == w + Interval

\* lines 197 / 259: task_json.get("status") or ""
HandlerStatus(j) == PyOr(Get(j, "status"), JStr(""))

\* lines 198 / 260: status not in (...) is false
HandlerSeesSuccess(status) == Upper(status.s) \in SuccessWords

\* lines 93 / 110: resp.status_code >= 400
IsHttpError(code) == code >= 400

(* ---------- scripted environment ---------- *)
JBool(b) == [t |-> "bool", b |-> b]

\* callback_data of the buttons built at lines 128-129, 140-141, 151-152
ModeData == {"mode_text", "mode_image"}
DurationData == {"duration_5", "duration_10"}
RatioData == {"ratio_1280:720"}

\* line 159: q.data.split("_", 1)[1]
RatioOf(data) ==
  CASE data = "ratio_1280:720" -> "1280:720"
    [] data = "ratio_720:1280" -> "720:1280"

\* texts, captions (None or a string) and photos the user sends
Texts == {" dog "}
Captions == <<JNull, JStr("cat ")>>
Photos == {<<255>>}

HttpReply(code, body) == [exc |-> FALSE, code |-> code, parses |-> TRUE, body |-> body]
NetworkError == [exc |-> TRUE, code |-> 0, parses |-> FALSE, body |-> EmptyDict]
BadJson(code) == [exc |-> FALSE, code |-> code, parses |-> FALSE, body |-> EmptyDict]

\* what the provider answers to POST /{endpoint}
StartResponses ==
  << NetworkError,
     HttpReply(200, [id |-> JStr("t1")]),
     HttpReply(200, [task |-> JDict([id |-> JStr("t1")])]),
     HttpReply(200, [data |-> JDict([taskId |-> JStr("t1")])]),
     HttpReply(200, EmptyDict),
     HttpReply(200, [id |-> JStr("")]),
     HttpReply(200, [id |-> JNull, data |-> JDict([name |-> JStr("x")])]),
     BadJson(200),
     HttpReply(302, [id |-> JStr("t1")]),
     BadJson(302),
     HttpReply(400, [error |-> JStr("bad request")]),
     HttpReply(500, [id |-> JStr("t1")]) >>

\* what the provider answers to GET /tasks/{id}
PollResponses ==
  << NetworkError,
     HttpReply(500, [error |-> JStr("oops")]),
     HttpReply(404, [status |-> JStr("SUCCEEDED"), output |-> JList(<<JStr("u1")>>)]),
     BadJson(200),
     HttpReply(200, [status |-> JStr("RUNNING")]),
     HttpReply(200, [status |-> JStr("cancelled")]),
     HttpReply(200, [status |-> JStr("DONE"), output |-> JList(<<JStr("u1")>>)]),
     HttpReply(200, [status |-> JStr("SUCCEEDED"), output |-> JList(<<JStr("u1")>>)]),
     HttpReply(200, [status |-> JStr("succeeded"), output |-> JList(<<JDict([url |-> JStr("u2")])>>)]),
     HttpReply(200, [status |-> JStr("Success"), output |-> JList(<<JDict([video |-> JStr("u1"), uri |-> JStr("u2")])>>)]),
     HttpReply(200, [status |-> JStr("completed"), output |-> JList(<<JDict([result |-> JStr("u1")])>>)]),
     HttpReply(200, [status |-> JStr("COMPLETED"), output |-> JList(<<>>)]),
     HttpReply(200, [status |-> JStr("SUCCESS")]),
     HttpReply(200, [status |-> JStr("SUCCEEDED"), data |-> JDict([output |-> JList(<<JStr("u1")>>)])]),
     HttpReply(200, [status |-> JStr("SUCCEEDED"), output |-> JStr("u1")]),
     HttpReply(200, [state |-> JStr("SUCCEEDED"), output |-> JList(<<JStr("u1")>>)]),
     HttpReply(200, [status |-> JStr("FAILED"), failure |-> JStr("nsfw")]),
     HttpReply(200, [status |-> JStr("Error")]),
     HttpReply(200, [state |-> JStr("failed")]) >>

(* ---------- state ---------- *)
VARIABLES
  user_data,    \* context.user_data of the conversation
  menus,        \* how many bot messages show the mode / duration / ratio keyboard
  pc,           \* position of the running handler; "idle" when none runs
  handler,      \* the handler invoked last
  reply,        \* the plain message that handler sent first
  endpoint,     \* endpoint of the creation request of the handler
  payload,      \* its JSON payload
  submits,      \* creation requests issued by the handler
  start_code,   \* status code of the creation response (0: the request itself raised)
  task_id,      \* extract_task_id(start_resp)
  waited,       \* poll_task: waited
  elapsed,      \* seconds since poll_task was entered, counted up to MaxWait
  polls,        \* status requests issued by poll_task
  lastPoll,     \* how poll_task classified the latest status response
  lastReply,    \* JSON body of the latest status response poll_task could read
  task_json,    \* what poll_task returned
  video_url,    \* extract_output_url(task_json)
  primary,      \* result of send_video by URL
  fetched,      \* result of the download of video_url
  uploaded,     \* result of send_video with the downloaded bytes
  videosSent,   \* send_video calls that succeeded
  errAttempts,  \* calls of send_error_chat
  outcome,      \* how the handler ended
  inbox         \* text messages received while a handler runs, not yet dispatched

jobVars == <<endpoint, payload, submits, start_code, task_id, waited, elapsed, polls,
             lastPoll, lastReply, task_json, video_url, primary, fetched, uploaded,
             videosSent, errAttempts>>
vars == <<user_data, menus, pc, handler, reply, outcome, jobVars, inbox>>

MenuCount == menus.mode + menus.duration + menus.ratio

\* the record of a job about to be created at ep with payload pl
NewJob(ep, pl) ==
  /\ endpoint' = ep
  /\ payload' = pl
  /\ submits' = 0
  /\ start_code' = 0
  /\ task_id' = JNull
  /\ waited' = 0
  /\ elapsed' = 0
  /\ polls' = 0
  /\ lastPoll' = "none"
  /\ lastReply' = EmptyDict
  /\ task_json' = EmptyDict
  /\ video_url' = JNull
  /\ primary' = "none"
  /\ fetched' = "none"
  /\ uploaded' = "none"
  /\ videosSent' = 0
  /\ errAttempts' = 0

\* a handler invocation that creates no job
FreshJob == NewJob("none", EmptyDict)

Init ==
  /\ user_data = EmptyDict
  /\ menus = [mode |-> 0, duration |-> 0, ratio |-> 0]
  /\ pc = "idle"
  /\ handler = "none"
  /\ reply = "none"
  /\ outcome = "none"
  /\ endpoint = "none"
  /\ payload = EmptyDict
  /\ submits = 0
  /\ start_code = 0
  /\ task_id = JNull
  /\ waited = 0
  /\ elapsed = 0
  /\ polls = 0
  /\ lastPoll = "none"
  /\ lastReply = EmptyDict
  /\ task_json = EmptyDict
  /\ video_url = JNull
  /\ primary = "none"
  /\ fetched = "none"
  /\ uploaded = "none"
  /\ videosSent = 0
  /\ errAttempts = 0
  /\ inbox = <<>>

(* ---------- dispatch of updates ---------- *)

\* lines 292-301: the application is built without concurrent updates and the
\* handlers are registered blocking, so an update is taken only after the handler
\* of the previous one has returned
DispatcherFree == pc = "idle"

(* ---------- parameter collection ---------- *)
start ==
  /\ DispatcherFree
  /\ MenuCount < MaxMenus
  /\ menus' = [menus EXCEPT !.mode = @ + 1]
  /\ handler' = "start"
  /\ reply' = "choose_mode"
  /\ outcome' = "none"
  /\ FreshJob
  /\ UNCHANGED <<user_data, pc>>

mode_selection(data) ==
  /\ DispatcherFree
  /\ menus.mode > 0
  /\ user_data' = Put(user_data, MODE_KEY, IF data = "mode_text" THEN "text" ELSE "image")
  /\ menus' = [menus EXCEPT !.mode = @ - 1, !.duration = @ + 1]
  /\ handler' = "mode_selection"
  /\ reply' = "choose_duration"
  /\ outcome' = "none"
  /\ FreshJob
  /\ UNCHANGED pc

duration_selection(data) ==
  /\ DispatcherFree
  /\ menus.duration > 0
  /\ user_data' = Put(user_data, DURATION_KEY, IF data = "duration_5" THEN 5 ELSE 10)
  /\ menus' = [menus EXCEPT !.duration = @ - 1, !.ratio = @ + 1]
  /\ handler' = "duration_selection"
  /\ reply' = "choose_ratio"
  /\ outcome' = "none"
  /\ FreshJob
  /\ UNCHANGED pc

ratio_selection(data) ==
  /\ DispatcherFree
  /\ menus.ratio > 0
  /\ user_data' = Put(user_data, RATIO_KEY, RatioOf(data))
  /\ menus' = [menus EXCEPT !.ratio = @ - 1]
  /\ handler' = "ratio_selection"
  /\ reply' = IF Has(user_data, MODE_KEY) /\ user_data[MODE_KEY] = "text"
              THEN "send_prompt" ELSE "send_prompt_then_photo"
  /\ outcome' = "none"
  /\ FreshJob
  /\ UNCHANGED pc

(* ---------- handle_text / handle_photo up to the creation request ---------- *)
\* line 173: mode and duration and ratio (the stored values are never falsy)
ParamsChosen(ud) == Has(ud, MODE_KEY) /\ Has(ud, DURATION_KEY) /\ Has(ud, RATIO_KEY)

\* lines 184-190
TextPayload(ud, prompt) ==
  [model |-> JStr("gen4_turbo"),
   promptText |-> JStr(prompt),
   duration |-> JNum(ud[DURATION_KEY]),
   ratio |-> JStr(ud[RATIO_KEY]),
   watermark |-> JBool(FALSE)]

\* lines 245-252
PhotoPayload(ud, prompt, data_uri) ==
  [model |-> JStr("gen4_turbo"),
   promptText |-> JStr(prompt),
   promptImage |-> JStr(data_uri),
   duration |-> IF Has(ud, DURATION_KEY) THEN JNum(ud[DURATION_KEY]) ELSE JNull,
   ratio |-> IF Has(ud, RATIO_KEY) THEN JStr(ud[RATIO_KEY]) ELSE JNull,
   watermark |-> JBool(FALSE)]

\* line 230: mode != "image" is false
PhotoModeOk(ud) == Has(ud, MODE_KEY) /\ ud[MODE_KEY] = "image"

\* line 233: user_data.get(PROMPT_KEY) or (caption or "").strip()
PhotoPrompt(ud, caption) ==
  IF Has(ud, PROMPT_KEY) /\ ud[PROMPT_KEY] # "" THEN ud[PROMPT_KEY]
  ELSE Strip(PyOr(caption, JStr("")).s)

handle_text(text) ==
  /\ DispatcherFree
  /\ handler' = "handle_text"
  /\ IF ~ParamsChosen(user_data)
     THEN /\ reply' = "choose_params_first"
          /\ outcome' = "rejected"
          /\ FreshJob
          /\ UNCHANGED <<user_data, pc>>
     ELSE /\ user_data' = Put(user_data, PROMPT_KEY, Strip(text))
          /\ reply' = "accepted"
          /\ outcome' = "none"
          /\ pc' = "submitting"
          /\ NewJob("text_to_video", TextPayload(user_data, Strip(text)))
  /\ UNCHANGED menus

handle_photo(caption, img) ==
  /\ DispatcherFree
  /\ handler' = "handle_photo"
  /\ IF ~PhotoModeOk(user_data)
     THEN /\ reply' = "photo_not_needed"
          /\ outcome' = "rejected"
          /\ FreshJob
          /\ UNCHANGED pc
     ELSE IF PhotoPrompt(user_data, caption) = ""
     THEN /\ reply' = "send_prompt_first"
          /\ outcome' = "rejected"
          /\ FreshJob
          /\ UNCHANGED pc
     ELSE /\ reply' = "accepted_image"
          /\ outcome' = "none"
          /\ pc' = "submitting"
          /\ NewJob("image_to_video",
                    PhotoPayload(user_data, PhotoPrompt(user_data, caption),
                                 image_bytes_to_data_uri(img)))
  /\ UNCHANGED <<user_data, menus>>

(* ---------- the job: submit, poll, extract, deliver ---------- *)
\* lines 283-288: the error text is handed to the chat; a send that fails is only
\* logged, so both results of the send leave the same state
send_error_chat ==
  errAttempts' = errAttempts + 1

\* lines 201-202, 205-206, 221-225: report, then return; user_data is not touched
ReportAndReturn(kind) ==
  /\ send_error_chat
  /\ outcome' = kind
  /\ pc' = "idle"
  /\ UNCHANGED user_data

\* lines 219 / 277, reached after a send_video that did not raise
DeliveredAndReturn ==
  /\ videosSent' = videosSent + 1
  /\ user_data' = EmptyDict
  /\ outcome' = "delivered"
  /\ pc' = "idle"

\* lines 91-97 and 109-114: the request raised, the status is rejected, or awaiting
\* resp.json() raised (an unreadable body, or a client whose json() is not awaitable)
RequestRaises(r) == r.exc \/ IsHttpError(r.code) \/ ~r.parses

\* lines 191-196 / 253-258
StartGeneration(r) ==
  /\ pc = "submitting"
  /\ submits' = submits + 1
  /\ start_code' = r.code
  /\ IF RequestRaises(r)
     THEN /\ ReportAndReturn("submit_failed")
          /\ UNCHANGED <<task_id, waited>>
     ELSE IF ~Truthy(extract_task_id(r.body))
     THEN /\ ReportAndReturn("no_task_id")
          /\ UNCHANGED <<task_id, waited>>
     ELSE /\ task_id' = extract_task_id(r.body)
          /\ waited' = 0
          /\ pc' = "polling"
          /\ UNCHANGED <<user_data, outcome, errAttempts>>
  /\ UNCHANGED <<menus, handler, reply, endpoint, payload, elapsed, polls, lastPoll,
                 lastReply, task_json, video_url, primary, fetched, uploaded, videosSent>>

\* a handler that goes on waiting when the succeeded job shows no URL
AfterPoll_retry(j) ==
  /\ task_json' = j
  /\ IF ~HandlerSeesSuccess(HandlerStatus(j))
     THEN /\ ReportAndReturn("task_failed")
          /\ UNCHANGED video_url
     ELSE IF ~Truthy(extract_output_url(j))
     THEN UNCHANGED <<pc, user_data, outcome, errAttempts, video_url>>
     ELSE /\ video_url' = extract_output_url(j)
          /\ pc' = "send_url"
          /\ UNCHANGED <<user_data, outcome, errAttempts>>

\* lines 197-206 / 259-267: what the handler does with the JSON poll_task returned
AfterPoll(j) ==
  /\ task_json' = j
  /\ IF ~HandlerSeesSuccess(HandlerStatus(j))
     THEN /\ ReportAndReturn("task_failed")
          /\ UNCHANGED video_url
     ELSE IF ~Truthy(extract_output_url(j))
     THEN /\ ReportAndReturn("no_output")
          /\ UNCHANGED video_url
     ELSE /\ video_url' = extract_output_url(j)
          /\ pc' = "send_url"
          /\ UNCHANGED <<user_data, outcome, errAttempts>>

\* the status requests answer at once or only when their timeout is reached
RequestTimes == {0, RequestTimeout}

\* the clock after a request that took d seconds and the sleep of line 121
Clock(e, d) == IF e + d + Interval >= MaxWait THEN MaxWait ELSE e + d + Interval

\* lines 108-122: one pass of the loop body, the request taking d seconds
Poll(r, d) ==
  /\ pc = "polling"
  /\ LoopContinues(waited)
  /\ polls' = polls + 1
  /\ lastReply' = IF RequestRaises(r) THEN EmptyDict ELSE r.body
  /\ IF RequestRaises(r)
     THEN /\ lastPoll' = "raised"
          /\ ReportAndReturn("poll_failed")
          /\ UNCHANGED <<waited, task_json, video_url>>
     ELSE IF PollSeesSuccess(PollStatus(r.body))
     THEN /\ lastPoll' = "success"
          /\ AfterPoll(r.body)
          /\ UNCHANGED waited
     ELSE IF PollSeesFailure(PollStatus(r.body))
     THEN /\ lastPoll' = "failure"
          /\ AfterPoll(r.body)
          /\ UNCHANGED waited
     ELSE /\ lastPoll' = "running"
          /\ waited' = NextWaited(waited)
          /\ UNCHANGED <<pc, user_data, outcome, errAttempts, task_json, video_url>>
  /\ UNCHANGED <<menus, handler, reply, endpoint, payload, submits, start_code, task_id,
                 primary, fetched, uploaded, videosSent>>
  /\ elapsed' = IF pc' = "polling" THEN Clock(elapsed, d) ELSE 0

\* line 123, reached when the loop test fails
PollTimeout ==
  /\ pc = "polling"
  /\ ~LoopContinues(waited)
  /\ ReportAndReturn("timeout")
  /\ elapsed' = 0
  /\ UNCHANGED <<menus, handler, reply, endpoint, payload, submits, start_code, task_id,
                 waited, polls, lastPoll, lastReply, task_json, video_url, primary, fetched,
                 uploaded, videosSent>>

\* lines 210 / 271
SendByUrl(ok) ==
  /\ pc = "send_url"
  /\ IF ok
     THEN /\ primary' = "ok"
          /\ DeliveredAndReturn
     ELSE /\ primary' = "failed"
          /\ pc' = "download"
          /\ UNCHANGED <<user_data, outcome, videosSent>>
  /\ UNCHANGED <<menus, handler, reply, endpoint, payload, submits, start_code, task_id,
                 waited, elapsed, polls, lastPoll, lastReply, task_json, video_url, fetched,
                 uploaded, errAttempts>>

\* a download whose failure leaves the handler without passing the except block
Download_escapes(ok) ==
  /\ pc = "download"
  /\ fetched' = IF ok THEN "ok" ELSE "failed"
  /\ IF ok
     THEN /\ pc' = "upload"
          /\ UNCHANGED <<user_data, outcome, errAttempts>>
     ELSE /\ pc' = "idle"
          /\ outcome' = "delivery_failed"
          /\ UNCHANGED <<user_data, errAttempts>>
  /\ UNCHANGED <<menus, handler, reply, endpoint, payload, submits, start_code, task_id,
                 waited, elapsed, polls, lastPoll, lastReply, task_json, video_url, primary,
                 uploaded, videosSent>>

\* lines 214-216 / 273-274
Download(ok) ==
  /\ pc = "download"
  /\ fetched' = IF ok THEN "ok" ELSE "failed"
  /\ IF ok
     THEN /\ pc' = "upload"
          /\ UNCHANGED <<user_data, outcome, errAttempts>>
     ELSE ReportAndReturn("delivery_failed")
  /\ UNCHANGED <<menus, handler, reply, endpoint, payload, submits, start_code, task_id,
                 waited, elapsed, polls, lastPoll, lastReply, task_json, video_url, primary,
                 uploaded, videosSent>>

\* a fallback that falls through to the error report after a successful upload
Upload_reports(ok) ==
  /\ pc = "upload"
  /\ uploaded' = IF ok THEN "ok" ELSE "failed"
  /\ IF ok
     THEN /\ DeliveredAndReturn
          /\ send_error_chat
     ELSE /\ ReportAndReturn("delivery_failed")
          /\ UNCHANGED videosSent
  /\ UNCHANGED <<menus, handler, reply, endpoint, payload, submits, start_code, task_id,
                 waited, elapsed, polls, lastPoll, lastReply, task_json, video_url, primary,
                 fetched>>

\* lines 217 / 275
Upload(ok) ==
  /\ pc = "upload"
  /\ uploaded' = IF ok THEN "ok" ELSE "failed"
  /\ IF ok
     THEN /\ DeliveredAndReturn
          /\ UNCHANGED errAttempts
     ELSE /\ ReportAndReturn("delivery_failed")
          /\ UNCHANGED videosSent
  /\ UNCHANGED <<menus, handler, reply, endpoint, payload, submits, start_code, task_id,
                 waited, elapsed, polls, lastPoll, lastReply, task_json, video_url, primary,
                 fetched>>

\* the steps of the job the running handler awaits
JobStep ==
  \/ \E i \in 1..Len(StartResponses) : StartGeneration(StartResponses[i])
  \/ \E i \in 1..Len(PollResponses), d \in RequestTimes : Poll(PollResponses[i], d)
  \/ PollTimeout
  \/ \E ok \in BOOLEAN : SendByUrl(ok)
  \/ \E ok \in BOOLEAN : Download(ok)
  \/ \E ok \in BOOLEAN : Upload(ok)

\* the user acts only after the bot has answered: nothing waits in the inbox
Next ==
  \/ start /\ UNCHANGED inbox
  \/ \E data \in ModeData : mode_selection(data) /\ UNCHANGED inbox
  \/ \E data \in DurationData : duration_selection(data) /\ UNCHANGED inbox
  \/ \E data \in RatioData : ratio_selection(data) /\ UNCHANGED inbox
  \/ \E text \in Texts : handle_text(text) /\ UNCHANGED inbox
  \/ \E c \in 1..Len(Captions), img \in Photos :
        handle_photo(Captions[c], img) /\ UNCHANGED inbox
  \/ JobStep /\ UNCHANGED inbox

Spec == Init /\ [][Next]_vars

(* ---------- the same handlers with a user who does not wait ---------- *)
\* sessions as ratio_selection leaves them
Sessions ==
  { [mode |-> "text", duration |-> 5, ratio |-> "1280:720"],
    [mode |-> "image", duration |-> 10, ratio |-> "1280:720"] }

InitQ ==
  /\ user_data \in Sessions
  /\ menus = [mode |-> 0, duration |-> 0, ratio |-> 0]
  /\ pc = "idle"
  /\ handler = "ratio_selection"
  /\ reply = IF user_data[MODE_KEY] = "text" THEN "send_prompt" ELSE "send_prompt_then_photo"
  /\ outcome = "none"
  /\ endpoint = "none"
  /\ payload = EmptyDict
  /\ submits = 0
  /\ start_code = 0
  /\ task_id = JNull
  /\ waited = 0
  /\ elapsed = 0
  /\ polls = 0
  /\ lastPoll = "none"
  /\ lastReply = EmptyDict
  /\ task_json = EmptyDict
  /\ video_url = JNull
  /\ primary = "none"
  /\ fetched = "none"
  /\ uploaded = "none"
  /\ videosSent = 0
  /\ errAttempts = 0
  /\ inbox = <<>>

\* a text message sent while a handler runs waits in the update queue
receive_text(text) ==
  /\ ~DispatcherFree
  /\ Len(inbox) < MaxInbox
  /\ inbox' = Append(inbox, text)
  /\ UNCHANGED <<user_data, menus, pc, handler, reply, outcome, jobVars>>

\* the dispatcher hands the oldest waiting message to handle_text
dispatch_text ==
  /\ inbox # <<>>
  /\ handle_text(Head(inbox))
  /\ inbox' = Tail(inbox)

NextQ ==
  \/ \E text \in Texts : receive_text(text)
  \/ dispatch_text
  \/ \E text \in Texts : inbox = <<>> /\ handle_text(text) /\ UNCHANGED inbox
  \/ \E c \in 1..Len(Captions), img \in Photos :
        inbox = <<>> /\ handle_photo(Captions[c], img) /\ UNCHANGED inbox
  \/ JobStep /\ UNCHANGED inbox

QueueSpec == InitQ /\ [][NextQ]_vars

\* every awaited network call returns or fails, so the running handler goes on
FairQueueSpec == QueueSpec /\ WF_vars(JobStep /\ UNCHANGED inbox)

TypeOK ==
  /\ pc \in {"idle", "submitting", "polling", "send_url", "download", "upload"}
  /\ DOMAIN user_data \subseteq {MODE_KEY, DURATION_KEY, RATIO_KEY, PROMPT_KEY}
  /\ MenuCount <= MaxMenus
  /\ waited \in 0..MaxWait

(* ---------- properties ---------- *)
\* how a handler that returned ended its job
TerminalOutcomes ==
  {"delivered", "task_failed", "timeout", "poll_failed", "submit_failed", "no_task_id",
   "no_output", "delivery_failed"}

\* C1: when a handler that started a job has returned, whatever the outcome of the
\* job, context.user_data is empty.
C1_SessionEmptyAfterTerminalOutcome ==
  (pc = "idle" /\ outcome \in TerminalOutcomes) => user_data = EmptyDict

\* C2: a creation request carries promptImage exactly when the session mode is
\* image, and always carries a duration of 5 or 10.
C2_RequestMatchesMode ==
  pc = "submitting" =>
    /\ ("promptImage" \in DOMAIN payload) <=>
         (Has(user_data, MODE_KEY) /\ user_data[MODE_KEY] = "image")
    /\ payload.duration.t = "num"
    /\ payload.duration.n \in {5, 10}

\* C3: poll_task never issues a status request once max_wait has been slept away;
\* after max_wait/interval non-terminal answers it has returned no JSON, nothing is
\* delivered and the only way out is the TimeoutError; a timeout is reported only then.
C3_TimeoutAfterRunningOnly ==
  /\ polls > 0 => (polls - 1) * Interval < MaxWait
  /\ (polls * Interval >= MaxWait /\ lastPoll = "running") =>
       /\ pc = "polling" \/ (pc = "idle" /\ outcome = "timeout")
       /\ task_json = EmptyDict
       /\ videosSent = 0
  /\ outcome = "timeout" =>
       /\ polls * Interval >= MaxWait
       /\ lastPoll = "running"
       /\ errAttempts = 1

C3_Witness ==
  pc = "idle" /\ outcome = "timeout" /\ polls * Interval >= MaxWait /\ lastPoll = "running"

\* the spellings of the success words the provider is scripted with
SuccessSpellings ==
  {"SUCCEEDED", "succeeded", "SUCCESS", "Success", "COMPLETED", "completed"}

ReplyHasSuccessStatus ==
  /\ Get(lastReply, "status").t = "str"
  /\ Get(lastReply, "status").s \in SuccessSpellings

\* C4: as soon as a status response carries a status that is a success word in any
\* letter case, poll_task has returned that response, and no further status request
\* is issued while the handler finishes the job.
C4_ReturnsOnFirstSuccess ==
  /\ [](ReplyHasSuccessStatus => (pc # "polling" /\ task_json = lastReply))
  /\ [][(ReplyHasSuccessStatus /\ pc # "idle") => polls' = polls]_vars

C4_Witness ==
  /\ ReplyHasSuccessStatus
  /\ Get(lastReply, "status").s = "succeeded"
  /\ polls > 1
  /\ pc = "send_url"

\* C5: a status request that raises (network error, error status, unreadable body)
\* before the deadline leaves poll_task in its loop.
C5_PollErrorKeepsPolling ==
  [][(pc = "polling" /\ polls' = polls + 1 /\ lastPoll' = "raised") => pc' = "polling"]_vars

\* C6: when send_video by URL failed and the download succeeded, the video goes out
\* through the upload: nothing is delivered or reported before the upload, and once
\* the channel has taken the upload the handler has returned with exactly one
\* successful send_video and no error message.
C6_FallbackDeliversOnce ==
  /\ videosSent <= 1
  /\ (primary = "failed" /\ fetched = "ok" /\ uploaded = "none") =>
       (pc = "upload" /\ videosSent = 0 /\ errAttempts = 0)
  /\ (primary = "failed" /\ fetched = "ok" /\ uploaded = "ok") =>
       (pc = "idle" /\ outcome = "delivered" /\ videosSent = 1 /\ errAttempts = 0)

C6_Witness ==
  primary = "failed" /\ fetched = "ok" /\ uploaded = "ok" /\ outcome = "delivered"

\* the collector state the session is in, read off the fields collected so far
CollectorState(ud) ==
  IF ~Has(ud, MODE_KEY) THEN "AwaitingMode"
  ELSE IF ~Has(ud, DURATION_KEY) THEN "AwaitingDuration"
  ELSE IF ~Has(ud, RATIO_KEY) THEN "AwaitingRatio"
  ELSE IF ~Has(ud, PROMPT_KEY) THEN "AwaitingPrompt"
  ELSE IF ud[MODE_KEY] = "image" THEN "AwaitingImage"
  ELSE "Ready"

\* the collector state in which the action served by handler h is expected
ExpectedState(h) ==
  CASE h = "mode_selection" -> "AwaitingMode"
    [] h = "duration_selection" -> "AwaitingDuration"
    [] h = "ratio_selection" -> "AwaitingRatio"
    [] h = "handle_text" -> "AwaitingPrompt"
    [] h = "handle_photo" -> "AwaitingImage"

\* C7: a user action that arrives in a collector state other than the one that
\* expects it leaves the session unchanged and starts nothing.
C7_OutOfStateActionRejected ==
  [][(/\ pc = "idle"
      /\ handler' \in {"mode_selection", "duration_selection", "ratio_selection",
                       "handle_text", "handle_photo"}
      /\ ExpectedState(handler') # CollectorState(user_data))
     => (user_data' = user_data /\ pc' = "idle")]_vars

\* C8: a creation request is about to be issued only when mode, duration and ratio
\* are in the session, the prompt is not empty and, in image mode, the image is there.
C8_NoRequestUnlessComplete ==
  pc = "submitting" =>
    /\ ParamsChosen(user_data)
    /\ payload.promptText.s # ""
    /\ user_data[MODE_KEY] = "image" => "promptImage" \in DOMAIN payload

\* C9: in image mode no job is submitted by the text alone: every creation request
\* made while the mode is image goes to image_to_video.
C9_ImageModeSubmitsOnlyImageJob ==
  (pc = "submitting" /\ Has(user_data, MODE_KEY) /\ user_data[MODE_KEY] = "image")
    => endpoint = "image_to_video"

\* C10: once a creation request got a non-2xx response, or a response without a job
\* identifier, the handler has returned after that single request, without any
\* status request, and has handed one error message to the chat.
C10_SubmissionErrorIsTerminal ==
  (submits > 0 /\ (start_code \notin 200..299 \/ ~Truthy(task_id))) =>
    (pc = "idle" /\ submits = 1 /\ polls = 0 /\ errAttempts = 1 /\ videosSent = 0)

\* C11: while a job is being polled, a message of the same conversation that has
\* arrived can be handed to its handler (the handler that started the job has
\* returned and does not hold the dispatcher).
C11_ResponsiveWhilePolling ==
  (pc = "polling" /\ inbox # <<>>) => ENABLED dispatch_text

\* C12: a generation request that arrived while a job was in flight is rejected:
\* when it is handed to handle_text it starts no job and is answered with a refusal.
C12_InFlightRequestRejected ==
  [][(inbox # <<>> /\ inbox' = Tail(inbox)) => (pc' = "idle" /\ outcome' = "rejected")]_vars

\* the spellings of the failure words the provider is scripted with
FailureSpellings == {"FAILED", "failed", "ERROR", "Error"}

\* C13: a status that is not a success word is never classified as success; a
\* failure word ends the job as failed; any other status string leaves poll_task
\* in its loop (or in the timeout it ends with); a video has been sent only when
\* the last status response carried a success word.
C13_OnlySuccessWordsSucceed ==
  LET st == Get(lastReply, "status") IN
  /\ (st.t = "str" /\ st.s \notin SuccessSpellings) => lastPoll # "success"
  /\ (st.t = "str" /\ st.s \in FailureSpellings) =>
       (lastPoll = "failure" /\ pc = "idle" /\ outcome = "task_failed" /\ videosSent = 0)
  /\ (st.t = "str" /\ st.s \notin (SuccessSpellings \cup FailureSpellings)) =>
       /\ lastPoll = "running"
       /\ task_json = EmptyDict
       /\ videosSent = 0
       /\ pc = "polling" \/ (pc = "idle" /\ outcome = "timeout")
  /\ videosSent > 0 =>
       (lastPoll = "success" /\ ReplyHasSuccessStatus /\ task_json = lastReply)

C13_Witness ==
  /\ Get(lastReply, "status") = JStr("DONE")
  /\ lastPoll = "running"
  /\ pc = "polling"
  /\ polls > 1

\* C14: a status request is issued only while fewer than max_wait seconds have
\* passed since poll_task was entered, the time spent waiting for the status
\* responses included.
C14_NoRequestAfterDeadline ==
  [][polls' = polls + 1 => elapsed < MaxWait]_vars

\* C15: a handler that submitted a job and returned without sending a video has
\* handed exactly one error message to the chat, whatever stage failed.
C15_FailureAlwaysReported ==
  (pc = "idle" /\ submits > 0 /\ videosSent = 0) =>
    (errAttempts = 1 /\ outcome \in (TerminalOutcomes \ {"delivered"}))

C15_Witness ==
  /\ pc = "idle"
  /\ outcome = "delivery_failed"
  /\ primary = "failed"
  /\ fetched = "failed"
  /\ videosSent = 0
  /\ errAttempts = 1

\* the value of output under the data wrapper of j
DataOutput(j) ==
  IF Get(j, "data").t = "dict" THEN Get(Get(j, "data").kv, "output") ELSE JNull

\* C16: for a status response with no output of its own and a list under
\* data.output whose first element is a string, extract_output_url returns that string.
C16_DataWrapperInspected ==
  (/\ Get(lastReply, "output").t = "null"
   /\ DataOutput(lastReply).t = "list"
   /\ DataOutput(lastReply).items # <<>>
   /\ DataOutput(lastReply).items[1].t = "str")
    => extract_output_url(lastReply) = DataOutput(lastReply).items[1]

\* the keys the first element of output is looked up with
OutputKeys == {"url", "uri", "video", "output", "result"}

\* C17: for a status response whose output is a non-empty list with a first element
\* that is a string, or an object with one of the keys url, uri, video, output,
\* result, extract_output_url does not return None.
C17_FirstElementYieldsUrl ==
  LET out == Get(lastReply, "output") IN
  (/\ out.t = "list"
   /\ out.items # <<>>
   /\ \/ out.items[1].t = "str"
      \/ (out.items[1].t = "dict" /\ DOMAIN out.items[1].kv \cap OutputKeys # {}))
    => extract_output_url(lastReply) # JNull

\* C18: when the status response that carried a success word has no output, or an
\* empty list as output, extract_output_url gives None and the handler has returned
\* with the no-output failure: one error message, no video, no polling any more.
C18_NoOutputIsTerminalFailure ==
  LET out == Get(lastReply, "output") IN
  (ReplyHasSuccessStatus /\ (out.t = "null" \/ (out.t = "list" /\ out.items = <<>>))) =>
    /\ extract_output_url(lastReply) = JNull
    /\ pc = "idle"
    /\ outcome = "no_output"
    /\ video_url = JNull
    /\ videosSent = 0
    /\ errAttempts = 1

C18_Witness ==
  /\ outcome = "no_output"
  /\ Get(task_json, "output").t = "list"
  /\ Get(task_json, "output").items = <<>>
  /\ polls > 1

\* C19: when poll_task stopped on a response it classified as success, the handler
\* does not report the job as a failed task.
C19_HandlerAgreesWithPoll ==
  lastPoll = "success" => outcome # "task_failed"

\* the number of passes of the loop of poll_task: ceil(max_wait / interval)
MaxPolls == (MaxWait + Interval - 1) \div Interval

\* C20: poll_task issues at most ceil(max_wait/interval) status requests; a handler
\* that started a job returns, and when it has returned it has either sent the
\* video once or attempted one error message, never both and never neither.
C20_JobTerminates ==
  /\ [](polls <= MaxPolls)
  /\ []((pc = "idle" /\ submits > 0) => (videosSent + errAttempts = 1))
  /\ (pc # "idle") ~> (pc = "idle")

C20_Witness ==
  pc = "idle" /\ submits = 1 /\ polls = MaxPolls /\ errAttempts = 1 /\ videosSent = 0

====
